---- MODULE Spec2Model ----
(***************************************************************************)
(* SubHunter (src/main.go): the fetch / retry / extract / aggregate        *)
(* pipeline.  A string is a sequence of one-character strings; a response  *)
(* of the remote service is a record; the program is the state machine of  *)
(* main -> processDomain / processDomainsFromFile -> queryAPI.             *)
(***************************************************************************)
EXTENDS Integers, Sequences, FiniteSets, TLC

(***************************************************************************)
(* Bounds of the model.                                                    *)
(***************************************************************************)
\* the longest domain list file (in lines) the model reads
MaxLines == 3
\* the largest value of the -c flag (s.concurrency) the model runs with
MaxWorkers == 2

(***************************************************************************)
(* Strings: the parts of Go's strings package the program uses.            *)
(***************************************************************************)
\* byte value of each character of the model's alphabet (ASCII)
Ord ==
  ("\t" :> 9) @@ ("\n" :> 10) @@ (" " :> 32) @@ ("*" :> 42) @@ ("," :> 44) @@
  ("-" :> 45) @@ ("." :> 46) @@ ("<" :> 60) @@ ("A" :> 65) @@ ("B" :> 66) @@
  ("[" :> 91) @@ ("]" :> 93) @@ ("_" :> 95) @@ ("a" :> 97) @@ ("b" :> 98) @@
  ("c" :> 99) @@ ("d" :> 100) @@ ("n" :> 110) @@ ("o" :> 111) @@ ("x" :> 120) @@
  ("%" :> 37) @@ ("&" :> 38) @@ ("/" :> 47) @@ (":" :> 58) @@ ("=" :> 61) @@
  ("?" :> 63) @@ ("h" :> 104) @@ ("j" :> 106) @@ ("p" :> 112) @@ ("q" :> 113) @@
  ("r" :> 114) @@ ("s" :> 115) @@ ("t" :> 116) @@ ("u" :> 117) @@ ("C" :> 67)

Lower == ("A" :> "a") @@ ("B" :> "b") @@ ("C" :> "c")

\* unicode.ToLower on one ASCII character
LowerChar(c) == IF c \in DOMAIN Lower THEN Lower[c] ELSE c

\* strings.ToLower
ToLower(s) == [i \in 1..Len(s) |-> LowerChar(s[i])]

\* unicode.IsSpace on the model's alphabet
IsSpace(c) == c \in {" ", "\t", "\n"}

\* strings.TrimSpace: drop leading and trailing white space
TrimSpace(s) ==
  LET idx == {i \in 1..Len(s) : ~IsSpace(s[i])}
  IN  IF idx = {} THEN <<>>
      ELSE LET lo == CHOOSE i \in idx : \A j \in idx : i <= j
               hi == CHOOSE i \in idx : \A j \in idx : j <= i
           IN  SubSeq(s, lo, hi)

\* strings.HasPrefix
HasPrefix(s, p) == Len(s) >= Len(p) /\ SubSeq(s, 1, Len(p)) = p

\* strings.TrimPrefix
TrimPrefix(s, p) == IF HasPrefix(s, p) THEN SubSeq(s, Len(p) + 1, Len(s)) ELSE s

\* strings.Contains
Contains(s, sub) ==
  \E i \in 1..(Len(s) + 1) :
    i + Len(sub) - 1 <= Len(s) /\ SubSeq(s, i, i + Len(sub) - 1) = sub

\* strings.Split(s, sep) for a one-character separator
RECURSIVE Split(_, _)
Split(s, sep) ==
  LET idx == {i \in 1..Len(s) : s[i] = sep}
  IN  IF idx = {} THEN <<s>>
      ELSE LET k == CHOOSE i \in idx : \A j \in idx : i <= j
           IN  <<SubSeq(s, 1, k - 1)>> \o Split(SubSeq(s, k + 1, Len(s)), sep)

\* Go's < on strings: bytewise lexicographic order
RECURSIVE StrLess(_, _)
StrLess(a, b) ==
  IF Len(a) = 0 THEN Len(b) > 0
  ELSE IF Len(b) = 0 THEN FALSE
  ELSE IF Ord[a[1]] # Ord[b[1]] THEN Ord[a[1]] < Ord[b[1]]
  ELSE StrLess(Tail(a), Tail(b))

\* variant of SortStrings: the order reversed
RECURSIVE SortStringsDescending(_)
SortStringsDescending(set) ==
  IF set = {} THEN <<>>
  ELSE LET m == CHOOSE x \in set : \A y \in set \ {x} : StrLess(y, x)
       IN  <<m>> \o SortStringsDescending(set \ {m})

\* sort.Strings applied to the keys of a map[string]bool, ranged over in any order
RECURSIVE SortStrings(_)
SortStrings(set) ==
  IF set = {} THEN <<>>
  ELSE LET m == CHOOSE x \in set : \A y \in set \ {x} : StrLess(x, y)
       IN  <<m>> \o SortStrings(set \ {m})

Range(f) == {f[i] : i \in DOMAIN f}

(***************************************************************************)
(* Validator and Extractor.                                                *)
(***************************************************************************)
\* variant of isValidSubdomain: the wildcard prefix is stripped before the
\* length test
isValidSubdomainStripFirst(subdomain) ==
  LET stripped == TrimPrefix(subdomain, <<"*", ".">>)
      parts == Split(stripped, ".")
  IN  IF Len(stripped) = 0 \/ Len(stripped) > 253 THEN FALSE
      ELSE \A k \in 1..Len(parts) : Len(parts[k]) # 0 /\ Len(parts[k]) <= 63

\* variant of isValidSubdomain: a label may have one character more
isValidSubdomainLongLabel(subdomain) ==
  IF Len(subdomain) = 0 \/ Len(subdomain) > 253 THEN FALSE
  ELSE LET parts == Split(TrimPrefix(subdomain, <<"*", ".">>), ".")
       IN  \A k \in 1..Len(parts) : Len(parts[k]) # 0 /\ Len(parts[k]) <= 64

\* isValidSubdomain: the length test comes first, on the string as given;
\* the wildcard prefix is stripped only afterwards, before the label tests
isValidSubdomain(subdomain) ==
  IF Len(subdomain) = 0 \/ Len(subdomain) > 253 THEN FALSE
  ELSE LET parts == Split(TrimPrefix(subdomain, <<"*", ".">>), ".")
       IN  \A k \in 1..Len(parts) : Len(parts[k]) # 0 /\ Len(parts[k]) <= 63

\* [a-z0-9] under the (?i) flag
IsAlnum(c) ==
  \/ Ord[c] >= 48 /\ Ord[c] <= 57
  \/ Ord[c] >= 65 /\ Ord[c] <= 90
  \/ Ord[c] >= 97 /\ Ord[c] <= 122

\* a word character of \b: [0-9A-Za-z_]
IsWord(c) == IsAlnum(c) \/ c = "_"

\* variant of WordBoundary: no boundary at either end of the string
WordBoundaryInside(s, p) ==
  p > 1 /\ p <= Len(s) /\ (IsWord(s[p - 1]) # IsWord(s[p]))

\* \b at the position in front of s[p] (p = Len(s) + 1: at the end)
WordBoundary(s, p) ==
  LET before == p > 1 /\ p - 1 <= Len(s) /\ IsWord(s[p - 1])
      after  == p >= 1 /\ p <= Len(s) /\ IsWord(s[p])
  IN  before # after

\* one iteration of (?:[a-z0-9](?:[a-z0-9-]{0,61}[a-z0-9])?\.) starting at s[i]:
\* the position after its dot, or 0 when no label and dot start there
LabelEnd(s, i) ==
  LET dots == {j \in i..Len(s) : s[j] = "."}
  IN  IF dots = {} THEN 0
      ELSE LET j == CHOOSE d \in dots : \A e \in dots : d <= e
               n == j - i
           IN  IF /\ n >= 1
                  /\ n <= 63
                  /\ IsAlnum(s[i])
                  /\ IsAlnum(s[j - 1])
                  /\ \A k \in i..(j - 1) : IsAlnum(s[k]) \/ s[k] = "-"
               THEN j + 1
               ELSE 0

\* the positions the starred label group can reach from i
RECURSIVE LabelChain(_, _)
LabelChain(s, i) ==
  IF LabelEnd(s, i) = 0 THEN {i} ELSE {i} \cup LabelChain(s, LabelEnd(s, i))

\* regexp.QuoteMeta(domain) under (?i), matched at s[p]
DomainAt(s, p, domain) ==
  /\ p + Len(domain) - 1 <= Len(s)
  /\ ToLower(SubSeq(s, p, p + Len(domain) - 1)) = ToLower(domain)

\* the match of the pattern that starts at s[i]: the position after it, or 0.
\* The star is greedy: the most label iterations that still let the rest match.
MatchEnd(s, i, domain) ==
  IF ~WordBoundary(s, i) THEN 0
  ELSE LET ends == {p \in LabelChain(s, i) :
                      DomainAt(s, p, domain) /\ WordBoundary(s, p + Len(domain))}
       IN  IF ends = {} THEN 0
           ELSE (CHOOSE p \in ends : \A q \in ends : q <= p) + Len(domain)

\* pattern.FindAllString(entry, -1) from position pos on: leftmost,
\* non-overlapping matches (domain is never empty: processDomain returns first)
RECURSIVE FindAllFrom(_, _, _)
FindAllFrom(s, pos, domain) ==
  LET starts == {i \in pos..Len(s) : MatchEnd(s, i, domain) # 0}
  IN  IF starts = {} THEN <<>>
      ELSE LET i == CHOOSE a \in starts : \A b \in starts : a <= b
               e == MatchEnd(s, i, domain)
           IN  <<SubSeq(s, i, e - 1)>> \o FindAllFrom(s, IF e > i THEN e ELSE i + 1, domain)

FindAllString(s, domain) == FindAllFrom(s, 1, domain)

\* every match of every line of every name value
AllMatches(domain, nameValues) ==
  UNION {UNION {Range(FindAllString(entry, domain)) : entry \in Range(Split(nv, "\n"))} :
           nv \in Range(nameValues)}

\* variant of NormaliseMatch: the letter case is kept
NormaliseMatchKeepCase(match) == TrimPrefix(TrimSpace(match), <<"*", ".">>)

\* the normalisation of one match
NormaliseMatch(match) == TrimPrefix(ToLower(TrimSpace(match)), <<"*", ".">>)

\* the keys of subdomainSet when the loops end
SubdomainSet(domain, nameValues) ==
  {sub \in {NormaliseMatch(m) : m \in AllMatches(domain, nameValues)} :
     isValidSubdomain(sub) /\ Contains(sub, domain)}

\* extractSubdomains
extractSubdomains(domain, nameValues) == SortStrings(SubdomainSet(domain, nameValues))

(***************************************************************************)
(* The program's constants, and the inputs of a run: the domains given,    *)
(* and the responses of the service.  A response is [err, status, readErr, *)
(* body]: err, client.Do failed; status, the HTTP status code; readErr,    *)
(* io.ReadAll failed; body, the bytes read.  A body is [text, objs]: text  *)
(* is the body with every JSON object written as the one character "o",    *)
(* the literal null as "n" and any other byte as "x"; objs holds the       *)
(* name_value of each object, in order.                                    *)
(***************************************************************************)
\* NewSubHunter: maxRetries: 3
maxRetries == 3

\* http.StatusOK
StatusOK == 200

\* domains, as given to -d or written on a line of the list file
DomAB == <<"a", ".", "b">>
DomCAB == <<"c", ".", "a", ".", "b">>
DomUpper == <<" ", "A", ".", "B">>
DomCtl == <<"a", "\t", "b">>
DomBlank == <<" ">>

\* name_value fields of the records the service returns
NvTwoLines == <<"c", ".", "a", ".", "b", "\n", "A", ".", "B">>
NvWildcard == <<"*", ".", "d", ".", "a", ".", "b">>
NvDeep == <<"d", ".", "c", ".", "a", ".", "b">>
NvNoise == <<"x", "-", "a", ".", "b", "c">>

\* responses of the service
Body(text, objs) == [text |-> text, objs |-> objs]
RespTransport == [err |-> TRUE, status |-> 0, readErr |-> FALSE, body |-> Body(<<>>, <<>>)]
RespStatus(code) == [err |-> FALSE, status |-> code, readErr |-> FALSE, body |-> Body(<<"x">>, <<>>)]
RespReadErr == [err |-> FALSE, status |-> StatusOK, readErr |-> TRUE, body |-> Body(<<>>, <<>>)]
Resp200(text, objs) ==
  [err |-> FALSE, status |-> StatusOK, readErr |-> FALSE, body |-> Body(text, objs)]

RespHTML == Resp200(<<"\n", " ", "<", "x">>, <<>>)
RespJunk == Resp200(<<"x">>, <<>>)
RespEmpty == Resp200(<<"[", "]">>, <<>>)
RespDeep == Resp200(<<" ", "[", "o", ",", "o", "]">>, <<NvDeep, NvTwoLines>>)
RespTwo == Resp200(<<"[", "o", ",", "o", "]", "\n">>, <<NvTwoLines, NvWildcard>>)
RespNoise == Resp200(<<"[", "o", "]">>, <<NvNoise>>)

\* the responses of the service, by name
Service ==
  ("transport" :> RespTransport) @@ ("503" :> RespStatus(503)) @@
  ("404" :> RespStatus(404)) @@ ("readErr" :> RespReadErr) @@ ("html" :> RespHTML) @@
  ("junk" :> RespJunk) @@ ("empty" :> RespEmpty) @@ ("noise" :> RespNoise) @@
  ("two" :> RespTwo) @@ ("deep" :> RespDeep)

\* the responses a single-domain run may meet at each attempt
Responses == {"transport", "503", "404", "readErr", "html", "junk", "empty", "noise", "two"}

\* the values of the -d flag of a single-domain run
SingleDomains == {DomAB, DomUpper, DomCtl, DomBlank}

\* the lines of a domain list file, each with the responses its fetch meets
\* (a blank line is never fetched)
Entries ==
  {[line |-> DomAB, script |-> <<"two", "transport", "transport">>],
   [line |-> DomCAB, script |-> <<"503", "deep", "transport">>],
   [line |-> DomUpper, script |-> <<"html", "junk", "readErr">>],
   [line |-> DomBlank, script |-> <<"transport", "transport", "transport">>]}

\* the domains processDomain hands to queryAPI in the runs of the model
QueriedDomains ==
  {ToLower(TrimSpace(d)) : d \in SingleDomains \cup {e.line : e \in Entries}}

\* the values of extractSubdomains on the records of the model's responses,
\* computed once
ExtractMemo ==
  [d \in QueriedDomains, r \in DOMAIN Service |-> extractSubdomains(d, Service[r].body.objs)]

\* extractSubdomains(domain, nameValues), taken from ExtractMemo when it is there
Extract(domain, nameValues) ==
  LET known == {r \in DOMAIN Service : Service[r].body.objs = nameValues}
  IN  IF domain \in QueriedDomains /\ known # {}
      THEN ExtractMemo[domain, CHOOSE r \in known : TRUE]
      ELSE extractSubdomains(domain, nameValues)

(***************************************************************************)
(* The HTTP client: the parts of queryAPI.                                 *)
(***************************************************************************)
\* fmt.Sprintf("https://crt.sh/?q=%%.%s&output=json", domain)
QueryURL(domain) ==
  <<"h", "t", "t", "p", "s", ":", "/", "/", "c", "r", "t", ".", "s", "h", "/", "?",
    "q", "=", "%", ".">>
    \o domain
    \o <<"&", "o", "u", "t", "p", "u", "t", "=", "j", "s", "o", "n">>

\* http.NewRequest("GET", url, nil) returns an error: url.Parse rejects a URL
\* that holds an ASCII control character (a byte below 0x20, or 0x7f)
NewRequestFails(url) == \E i \in 1..Len(url) : Ord[url[i]] < 32 \/ Ord[url[i]] = 127

\* the values an error takes: nil, or what went wrong
NoErr == [kind |-> "nil", status |-> 0]
ErrTransport == [kind |-> "transport", status |-> 0]
ErrHTTP(code) == [kind |-> "HTTP", status |-> code]
ErrRead == [kind |-> "read", status |-> 0]
ErrHTML == [kind |-> "API returned HTML instead of JSON", status |-> 0]
ErrJSON == [kind |-> "JSON decode failed", status |-> 0]

\* what queryAPI returns: (subdomains, nil), (nil, err) of http.NewRequest, or
\* (nil, "max retries exceeded: " + lastErr)
QueryOk(subs) == [ok |-> TRUE, subs |-> subs, err |-> "nil", wraps |-> NoErr]
QueryNewRequestErr == [ok |-> FALSE, subs |-> <<>>, err |-> "NewRequest", wraps |-> NoErr]
\* variant of QueryExhausted: the last failure is not wrapped
QueryExhaustedBare(lastErr) ==
  [ok |-> FALSE, subs |-> <<>>, err |-> "max retries exceeded", wraps |-> NoErr]

QueryExhausted(lastErr) ==
  [ok |-> FALSE, subs |-> <<>>, err |-> "max retries exceeded", wraps |-> lastErr]
QueryPending == [ok |-> FALSE, subs |-> <<>>, err |-> "pending", wraps |-> NoErr]

\* json.Unmarshal(body, &results) with results []CRTResponse: white space between
\* tokens is skipped; null gives no records; otherwise an array of objects
jsonUnmarshal(body) ==
  LET t == SelectSeq(body.text, LAMBDA c : ~IsSpace(c))
      inner == SubSeq(t, 2, Len(t) - 1)
      isArray ==
        /\ Len(t) >= 2
        /\ t[1] = "["
        /\ t[Len(t)] = "]"
        /\ \/ Len(inner) = 0
           \/ /\ Len(inner) % 2 = 1
              /\ \A k \in 1..Len(inner) : inner[k] = (IF k % 2 = 1 THEN "o" ELSE ",")
  IN  IF t = <<"n">> THEN [ok |-> TRUE, results |-> <<>>]
      ELSE IF isArray THEN [ok |-> TRUE, results |-> body.objs]
           ELSE [ok |-> FALSE, results |-> <<>>]

\* variant of IsHTML: the body is not trimmed first
IsHTMLUntrimmed(body) == HasPrefix(body.text, <<"<">>)

\* strings.HasPrefix(strings.TrimSpace(string(body)), "<")
IsHTML(body) == HasPrefix(TrimSpace(body.text), <<"<">>)

\* variant of StatusFails: status 200 is refused too
StatusFailsFrom200(status) == status >= StatusOK

\* resp.StatusCode != http.StatusOK
StatusFails(status) == status # StatusOK

\* variant of BackoffUnits: one second less
BackoffUnitsLess(attempt) == attempt - 1

\* time.Sleep(time.Duration(attempt) * time.Second), in seconds
BackoffUnits(attempt) == attempt

\* variant of MoreAttempts: the loop stops one attempt early
MoreAttemptsStrict(attempt) == attempt < maxRetries

\* the loop condition of the retry loop
MoreAttempts(attempt) == attempt <= maxRetries

\* one iteration of the retry loop from client.Do on, given the response:
\* [done, ret, lastErr]: done, the iteration returned ret; otherwise it
\* recorded lastErr and went on to the next attempt
Classify(domain, resp) ==
  IF resp.err THEN [done |-> FALSE, ret |-> QueryPending, lastErr |-> ErrTransport]
  ELSE IF StatusFails(resp.status)
    THEN [done |-> FALSE, ret |-> QueryPending, lastErr |-> ErrHTTP(resp.status)]
  ELSE IF resp.readErr THEN [done |-> FALSE, ret |-> QueryPending, lastErr |-> ErrRead]
  ELSE IF IsHTML(resp.body) THEN [done |-> FALSE, ret |-> QueryPending, lastErr |-> ErrHTML]
  ELSE IF ~jsonUnmarshal(resp.body).ok
    THEN [done |-> FALSE, ret |-> QueryPending, lastErr |-> ErrJSON]
  ELSE [done |-> TRUE,
        ret |-> QueryOk(Extract(domain, jsonUnmarshal(resp.body).results)),
        lastErr |-> NoErr]

RECURSIVE SeqsUpTo(_, _)
SeqsUpTo(set, n) ==
  IF n = 0 THEN {<<>>}
  ELSE LET shorter == SeqsUpTo(set, n - 1)
       IN  shorter \cup {Append(q, e) : q \in {x \in shorter : Len(x) = n - 1}, e \in set}

Calls == 1..MaxLines

(***************************************************************************)
(* State.                                                                  *)
(***************************************************************************)
VARIABLES
  mode,          \* "single": the -d flag was given; "list": the -l flag
  flagD,         \* the -d flag
  fileOk,        \* whether os.Open of the list file succeeds
  lines,         \* the lines of the list file
  concurrent,    \* the -concurrent flag
  concurrency,   \* s.concurrency, the -c flag
  silent,        \* s.silent, the -silent flag
  net,           \* net[i][n]: the response (its name) to attempt n of the fetch for domains[i]
  mainPc,        \* where main (with processDomainsFromFile) stands
  domains,       \* processDomainsFromFile's domains
  next,          \* the index the loop over domains has reached
  frame,         \* frame[i]: the call of processDomain for domains[i], and its worker
  totalFound,    \* s.totalFound
  smu,           \* s.mu: 0, or the call that holds it
  mu,            \* processDomainsFromFile's mu: 0, or the worker that holds it
  sem,           \* the number of elements in the semaphore channel
  wg,            \* the WaitGroup's counter
  allSubdomains, \* the keys of allSubdomains
  result,        \* what main's subdomains variable receives
  stdout,        \* what was written to standard output: [logs, results]
  writes,        \* the writes to s.totalFound and allSubdomains so far: [to, by, locks]
  fcall          \* one application of isValidSubdomain or extractSubdomains on its own

vars ==
  <<mode, flagD, fileOk, lines, concurrent, concurrency, silent, net, mainPc, domains, next,
    frame, totalFound, smu, mu, sem, wg, allSubdomains, result, stdout, writes, fcall>>

\* what a run of main never changes: the flags, the list file, the service
inputs == <<mode, flagD, fileOk, lines, concurrent, concurrency, silent, net, fcall>>

\* no function is applied on its own
NoCall == [fn |-> "none"]

IdleFrame ==
  [pc |-> "idle", domain |-> <<>>, attempt |-> 0, lastErr |-> NoErr, requests |-> 0,
   sleeps |-> <<>>, qret |-> QueryPending, subs |-> <<>>, count |-> 0, old |-> 0]

Init ==
  /\ \/ /\ mode = "single"
        /\ flagD \in SingleDomains
        /\ lines = <<>>
        /\ fileOk = TRUE
        /\ concurrent = FALSE
        /\ concurrency = 1
        /\ \E script \in [1..maxRetries -> Responses] :
             net = [i \in Calls |-> script]
     \/ /\ mode = "list"
        /\ flagD = <<>>
        /\ fileOk \in BOOLEAN
        /\ concurrent \in BOOLEAN
        /\ concurrency \in 0..MaxWorkers
        /\ \E es \in SeqsUpTo(Entries, MaxLines) :
             LET live == SelectSeq(es, LAMBDA e : TrimSpace(e.line) # <<>>)
             IN  /\ lines = [k \in 1..Len(es) |-> es[k].line]
                 /\ net = [i \in Calls |-> IF i <= Len(live) THEN live[i].script
                                           ELSE <<"transport", "transport", "transport">>]
  /\ silent \in BOOLEAN
  /\ mainPc = "start"
  /\ domains = <<>>
  /\ next = 1
  /\ frame = [i \in Calls |-> IdleFrame]
  /\ totalFound = 0
  /\ smu = 0
  /\ mu = 0
  /\ sem = 0
  /\ wg = 0
  /\ allSubdomains = {}
  /\ result = <<>>
  /\ stdout = [logs |-> 0, results |-> <<>>]
  /\ writes = {}
  /\ fcall = NoCall

(***************************************************************************)
(* Standard output.  stdout.logs counts the writes that are no result      *)
(* line: the banner, the configuration block, the lines of s.log, the      *)
(* summary.  stdout.results holds the lines of printResult, in order.      *)
(* The -o flag is not given: saveToFile is not called.                     *)
(***************************************************************************)
\* n calls of s.log (or Printf calls under "if !silent"): nothing in silent mode
Log(out, quiet, n) == IF quiet THEN out ELSE [out EXCEPT !.logs = @ + n]

\* printResult for each of subs: the bare subdomain in silent mode, otherwise
\* the subdomain behind "[R]"
PrintResults(out, quiet, subs) ==
  [out EXCEPT !.results = @ \o [k \in 1..Len(subs) |-> [bare |-> quiet, sub |-> subs[k]]]]

\* main before it calls the hunter: the banner, and the seven lines of the
\* configuration block, eight with the Workers line
Banner(out, quiet, workersLine) == Log(out, quiet, IF workersLine THEN 9 ELSE 8)

\* printSummary: six Printf calls
Summary(out, quiet) == Log(out, quiet, 6)

(***************************************************************************)
(* The locks a goroutine holds when it writes shared state.                *)
(***************************************************************************)
\* the locks held by the goroutine that runs call i
HeldBy(i) ==
  (IF smu = i THEN {"s.mu"} ELSE {}) \cup (IF mu = i THEN {"mu"} ELSE {})

\* the locks held by the main goroutine: it runs the calls of the sequential
\* branch itself, and takes no lock in the worker branch
HeldByMain(workers) ==
  IF workers THEN {}
  ELSE (IF smu # 0 THEN {"s.mu"} ELSE {}) \cup (IF mu # 0 THEN {"mu"} ELSE {})

\* one write to shared state: the variable, the place in the code
\* ("processDomain": s.totalFound += count; "merge": allSubdomains[sub] = true;
\* "final": s.totalFound = len(result)), the goroutine, the locks it holds
Write(to, site, by, locks) == [to |-> to, site |-> site, by |-> by, locks |-> locks]

(***************************************************************************)
(* processDomain and queryAPI.                                             *)
(***************************************************************************)
\* processDomain's domain after strings.ToLower(strings.TrimSpace(domain))
NormaliseDomain(d) == ToLower(TrimSpace(d))

\* processDomain once queryAPI has returned ret: the error is logged and nil
\* returned, or the count is taken and s.mu is wanted
AfterQuery(f, ret) ==
  IF ~ret.ok THEN [f EXCEPT !.qret = ret, !.subs = <<>>, !.pc = "ret"]
  ELSE [f EXCEPT !.qret = ret, !.subs = ret.subs, !.count = Len(ret.subs), !.pc = "lockS"]

\* the head of the retry loop: another iteration, or the loop ends and
\* fmt.Errorf("max retries exceeded: %v", lastErr) is returned
LoopHead(f) ==
  IF MoreAttempts(f.attempt) THEN [f EXCEPT !.pc = "query"]
  ELSE AfterQuery(f, QueryExhausted(f.lastErr))

\* variant of Enter: the domain is not tested for emptiness
EnterUnchecked(f, d) == LoopHead([f EXCEPT !.domain = NormaliseDomain(d), !.attempt = 1])

\* processDomain's entry: an empty domain returns nil, otherwise queryAPI
\* starts with attempt := 1
Enter(f, d) ==
  LET domain == NormaliseDomain(d)
  IN  IF domain = <<>> THEN [f EXCEPT !.domain = domain, !.pc = "ret"]
      ELSE LoopHead([f EXCEPT !.domain = domain, !.attempt = 1])

\* the sleeps of an iteration: none on the first attempt
SleepsOf(attempt) ==
  IF attempt > 1 THEN <<[before |-> attempt, units |-> BackoffUnits(attempt)]>> ELSE <<>>

(***************************************************************************)
(* main and processDomainsFromFile.                                        *)
(***************************************************************************)
\* the scanner loop: every line trimmed, the empty ones dropped
LoadedDomains(ls) == SelectSeq([k \in 1..Len(ls) |-> TrimSpace(ls[k])], LAMBDA d : d # <<>>)

\* variant of UseWorkers: one domain is enough
UseWorkersFromOne(isConcurrent, ds) == isConcurrent /\ Len(ds) >= 1

\* the condition that selects the worker branch
UseWorkers(isConcurrent, ds) == isConcurrent /\ Len(ds) > 1

\* main, -d given: processDomain(*domain, true) up to queryAPI's loop
SingleStart ==
  /\ mainPc = "start"
  /\ mode = "single"
  /\ domains' = <<flagD>>
  /\ frame' = [frame EXCEPT ![1] = Enter(@, flagD)]
  /\ stdout' = Log(Banner(stdout, silent, FALSE), silent, 1)
  /\ mainPc' = "single"
  /\ UNCHANGED <<inputs, next, totalFound, smu, mu, sem, wg, allSubdomains, result, writes>>

\* processDomainsFromFile: os.Open fails, the error is logged and nil is
\* returned; main ends with the summary
OpenFails ==
  /\ mainPc = "start"
  /\ mode = "list"
  /\ ~fileOk
  /\ result' = <<>>
  /\ stdout' = Summary(Log(Banner(stdout, silent, concurrent), silent, 1), silent)
  /\ mainPc' = "done"
  /\ UNCHANGED <<inputs, domains, next, frame, totalFound, smu, mu, sem, wg, allSubdomains,
                 writes>>

\* processDomainsFromFile up to the choice of the branch
LoadDomains ==
  /\ mainPc = "start"
  /\ mode = "list"
  /\ fileOk
  /\ domains' = LoadedDomains(lines)
  /\ allSubdomains' = {}
  /\ next' = 1
  /\ stdout' = Log(Banner(stdout, silent, concurrent), silent, IF concurrent THEN 2 ELSE 1)
  /\ mainPc' = IF UseWorkers(concurrent, LoadedDomains(lines)) THEN "spawn" ELSE "seq"
  /\ UNCHANGED <<inputs, frame, totalFound, smu, mu, sem, wg, result, writes>>

\* one iteration of the launching loop: wg.Add(1); go func(idx, d)
Launch ==
  /\ mainPc = "spawn"
  /\ next <= Len(domains)
  /\ wg' = wg + 1
  /\ frame' = [frame EXCEPT ![next].pc = "acquire"]
  /\ next' = next + 1
  /\ UNCHANGED <<inputs, mainPc, domains, totalFound, smu, mu, sem, allSubdomains, result,
                 stdout, writes>>

\* variant of CanAcquire: a channel with room for one element more
CanAcquireOneMore(held, capacity) == held <= capacity

\* whether a send on the semaphore channel can proceed
CanAcquire(held, capacity) == held < capacity

\* worker: semaphore <- struct{}{}, then processDomain(d, false) up to queryAPI's loop
Acquire(i) ==
  /\ frame[i].pc = "acquire"
  /\ CanAcquire(sem, concurrency)
  /\ sem' = sem + 1
  /\ frame' = [frame EXCEPT ![i] = Enter(@, domains[i])]
  /\ UNCHANGED <<inputs, mainPc, domains, next, totalFound, smu, mu, wg, allSubdomains, result,
                 stdout, writes>>

\* one iteration of the sequential loop: the "Processing" line, then
\* processDomain(domain, false) up to queryAPI's loop
SeqCall ==
  /\ mainPc = "seq"
  /\ next <= Len(domains)
  /\ frame[next].pc = "idle"
  /\ frame' = [frame EXCEPT ![next] = Enter(@, domains[next])]
  /\ stdout' = Log(stdout, silent, 1)
  /\ UNCHANGED <<inputs, mainPc, domains, next, totalFound, smu, mu, sem, wg, allSubdomains,
                 result, writes>>

\* one iteration of the retry loop, up to its return or to the head of the
\* next iteration: the "Querying" or "Attempt" line is logged first, and
\* processDomain logs the error queryAPI returns
Attempt(i) ==
  /\ frame[i].pc = "query"
  /\ LET f == frame[i]
         slept == [f EXCEPT !.sleeps = @ \o SleepsOf(f.attempt)]
         c == Classify(f.domain, Service[net[i][f.attempt]])
     IN  frame' = [frame EXCEPT ![i] =
           IF NewRequestFails(QueryURL(f.domain)) THEN AfterQuery(slept, QueryNewRequestErr)
           ELSE IF c.done THEN AfterQuery([slept EXCEPT !.requests = @ + 1], c.ret)
           ELSE LoopHead([slept EXCEPT !.requests = @ + 1, !.lastErr = c.lastErr,
                                       !.attempt = @ + 1])]
  /\ stdout' = Log(stdout, silent, IF frame'[i].pc = "ret" THEN 2 ELSE 1)
  /\ UNCHANGED <<inputs, mainPc, domains, next, totalFound, smu, mu, sem, wg, allSubdomains,
                 result, writes>>

\* variant of LockS: the call goes on without taking the lock
LockSSkipped(i) ==
  /\ frame[i].pc = "lockS"
  /\ frame' = [frame EXCEPT ![i].pc = "load"]
  /\ UNCHANGED <<inputs, mainPc, domains, next, totalFound, smu, mu, sem, wg, allSubdomains,
                 result, stdout, writes>>

\* s.mu.Lock()
LockS(i) ==
  /\ frame[i].pc = "lockS"
  /\ smu = 0
  /\ smu' = i
  /\ frame' = [frame EXCEPT ![i].pc = "load"]
  /\ UNCHANGED <<inputs, mainPc, domains, next, totalFound, mu, sem, wg, allSubdomains, result,
                 stdout, writes>>

\* s.totalFound += count, first half: the value of s.totalFound is read
LoadTotal(i) ==
  /\ frame[i].pc = "load"
  /\ frame' = [frame EXCEPT ![i].old = totalFound, ![i].pc = "add"]
  /\ UNCHANGED <<inputs, mainPc, domains, next, totalFound, smu, mu, sem, wg, allSubdomains,
                 result, stdout, writes>>

\* the showResults argument: true from main, false from processDomainsFromFile
ShowResults == mode = "single"

\* variant of AddTotal: the call also merges what it found into allSubdomains
AddTotalAndMerge(i) ==
  /\ frame[i].pc = "add"
  /\ totalFound' = frame[i].old + frame[i].count
  /\ allSubdomains' = allSubdomains \cup Range(frame[i].subs)
  /\ writes' = writes \cup
       {Write("totalFound", "processDomain", IF mainPc = "spawn" THEN "worker" ELSE "main",
              HeldBy(i))}
  /\ smu' = 0
  /\ frame' = [frame EXCEPT ![i].pc = "ret", ![i].old = 0]
  /\ stdout' = Log(stdout, silent, 1)
  /\ UNCHANGED <<inputs, mainPc, domains, next, mu, sem, wg, result>>

\* s.totalFound += count, second half: the value read plus count is stored
\* (the value read is dead from here on); s.mu.Unlock(); the "Discovered" line and, with
\* showResults, the results, or the "No subdomains found" line; return subdomains
AddTotal(i) ==
  /\ frame[i].pc = "add"
  /\ totalFound' = frame[i].old + frame[i].count
  /\ writes' = writes \cup
       {Write("totalFound", "processDomain", IF mainPc = "spawn" THEN "worker" ELSE "main",
              HeldBy(i))}
  /\ smu' = 0
  /\ frame' = [frame EXCEPT ![i].pc = "ret", ![i].old = 0]
  /\ stdout' =
       IF frame[i].count > 0 /\ ShowResults
       THEN PrintResults(Log(stdout, silent, 1), silent, frame[i].subs)
       ELSE Log(stdout, silent, 1)
  /\ UNCHANGED <<inputs, mainPc, domains, next, mu, sem, wg, allSubdomains, result>>

(***************************************************************************)
(* After processDomain has returned.                                       *)
(***************************************************************************)
\* variant of Merged: the map is replaced, not added to
MergedOverwrite(all, subs) == Range(subs)

\* for _, sub := range subs { allSubdomains[sub] = true }
Merged(all, subs) == all \cup Range(subs)

\* main, -d given: subdomains = the value returned; main ends with the summary
SingleDone ==
  /\ mainPc = "single"
  /\ frame[1].pc = "ret"
  /\ result' = frame[1].subs
  /\ frame' = [frame EXCEPT ![1].pc = "done"]
  /\ stdout' = Summary(stdout, silent)
  /\ mainPc' = "done"
  /\ UNCHANGED <<inputs, domains, next, totalFound, smu, mu, sem, wg, allSubdomains, writes>>

\* variant of SeqMerge: the loop is left at the first failed domain
SeqMergeStopsOnFailure ==
  /\ mainPc = "seq"
  /\ next <= Len(domains)
  /\ frame[next].pc = "ret"
  /\ allSubdomains' = Merged(allSubdomains, frame[next].subs)
  /\ frame' = [frame EXCEPT ![next].pc = "done"]
  /\ next' = IF frame[next].qret.ok THEN next + 1 ELSE Len(domains) + 1
  /\ UNCHANGED <<inputs, mainPc, domains, totalFound, smu, mu, sem, wg, result, stdout, writes>>

\* the writes of a merge loop over subs: none when subs is empty
MergeWrites(subs, by, locks) ==
  IF Len(subs) = 0 THEN {} ELSE {Write("allSubdomains", "merge", by, locks)}

\* the rest of an iteration of the sequential loop
SeqMerge ==
  /\ mainPc = "seq"
  /\ next <= Len(domains)
  /\ frame[next].pc = "ret"
  /\ allSubdomains' = Merged(allSubdomains, frame[next].subs)
  /\ writes' = writes \cup MergeWrites(frame[next].subs, "main", HeldByMain(FALSE))
  /\ frame' = [frame EXCEPT ![next].pc = "done"]
  /\ next' = next + 1
  /\ UNCHANGED <<inputs, mainPc, domains, totalFound, smu, mu, sem, wg, result, stdout>>

\* the sequential loop ends
SeqEnd ==
  /\ mainPc = "seq"
  /\ next > Len(domains)
  /\ mainPc' = "final"
  /\ UNCHANGED <<inputs, domains, next, frame, totalFound, smu, mu, sem, wg, allSubdomains,
                 result, stdout, writes>>

\* variant of LockMu: the worker goes on without taking the lock
LockMuSkipped(i) ==
  /\ mainPc = "spawn"
  /\ frame[i].pc = "ret"
  /\ frame' = [frame EXCEPT ![i].pc = "merge"]
  /\ UNCHANGED <<inputs, mainPc, domains, next, totalFound, smu, mu, sem, wg, allSubdomains,
                 result, stdout, writes>>

\* worker: mu.Lock()
LockMu(i) ==
  /\ mainPc = "spawn"
  /\ frame[i].pc = "ret"
  /\ mu = 0
  /\ mu' = i
  /\ frame' = [frame EXCEPT ![i].pc = "merge"]
  /\ UNCHANGED <<inputs, mainPc, domains, next, totalFound, smu, sem, wg, allSubdomains, result,
                 stdout, writes>>

\* worker: the merge loop; mu.Unlock(); the "[idx/n]" line
MergeUnlock(i) ==
  /\ frame[i].pc = "merge"
  /\ allSubdomains' = Merged(allSubdomains, frame[i].subs)
  /\ writes' = writes \cup MergeWrites(frame[i].subs, "worker", HeldBy(i))
  /\ mu' = 0
  /\ frame' = [frame EXCEPT ![i].pc = "release"]
  /\ stdout' = Log(stdout, silent, 1)
  /\ UNCHANGED <<inputs, mainPc, domains, next, totalFound, smu, sem, wg, result>>

\* worker: the deferred calls, <-semaphore and then wg.Done()
Release(i) ==
  /\ frame[i].pc = "release"
  /\ sem' = sem - 1
  /\ wg' = wg - 1
  /\ frame' = [frame EXCEPT ![i].pc = "done"]
  /\ UNCHANGED <<inputs, mainPc, domains, next, totalFound, smu, mu, allSubdomains, result,
                 stdout, writes>>

\* variant of WaitReturns: the wait ends with one task still counted
WaitReturnsAtOne(counter) == counter <= 1

\* whether wg.Wait() returns: the counter is zero
WaitReturns(counter) == counter = 0

\* wg.Wait() returns, after every worker was launched
WaitAll ==
  /\ mainPc = "spawn"
  /\ next > Len(domains)
  /\ WaitReturns(wg)
  /\ mainPc' = "final"
  /\ UNCHANGED <<inputs, domains, next, frame, totalFound, smu, mu, sem, wg, allSubdomains,
                 result, stdout, writes>>

\* variant of FinalTotal: the running total is kept
FinalTotalKeepsRunning(res, running) == running

\* s.totalFound = len(result), whatever the running total was
FinalTotal(res, running) == Len(res)

\* result is built and sorted; s.totalFound = len(result); return result;
\* main ends with the summary
Finalise ==
  /\ mainPc = "final"
  /\ result' = SortStrings(allSubdomains)
  /\ totalFound' = FinalTotal(SortStrings(allSubdomains), totalFound)
  /\ writes' = writes \cup
       {Write("totalFound", "final", "main", HeldByMain(UseWorkers(concurrent, domains)))}
  /\ stdout' = Summary(stdout, silent)
  /\ mainPc' = "done"
  /\ UNCHANGED <<inputs, domains, next, frame, smu, mu, sem, wg, allSubdomains>>

Next ==
  \/ SingleStart
  \/ OpenFails
  \/ LoadDomains
  \/ Launch
  \/ SeqCall
  \/ SingleDone
  \/ SeqMerge
  \/ SeqEnd
  \/ WaitAll
  \/ Finalise
  \/ \E i \in Calls :
       \/ Acquire(i)
       \/ Attempt(i)
       \/ LockS(i)
       \/ LoadTotal(i)
       \/ AddTotal(i)
       \/ LockMu(i)
       \/ MergeUnlock(i)
       \/ Release(i)

Spec == Init /\ [][Next]_vars

(***************************************************************************)
(* Scheduling.  The Go scheduler runs every goroutine that can run, a      *)
(* mutex or a channel operation that stays possible is granted, and every  *)
(* fetch attempt ends (the client has a timeout): each goroutine that can  *)
(* take a step eventually takes one.                                       *)
(***************************************************************************)
\* the steps of the main goroutine outside processDomain
MainStep ==
  \/ SingleStart
  \/ OpenFails
  \/ LoadDomains
  \/ Launch
  \/ SeqCall
  \/ SingleDone
  \/ SeqMerge
  \/ SeqEnd
  \/ WaitAll
  \/ Finalise

\* the steps of call i: of worker i in the worker branch, of the main
\* goroutine inside processDomain otherwise
CallStep(i) ==
  \/ Acquire(i)
  \/ Attempt(i)
  \/ LockS(i)
  \/ LoadTotal(i)
  \/ AddTotal(i)
  \/ LockMu(i)
  \/ MergeUnlock(i)
  \/ Release(i)

Fairness == WF_vars(MainStep) /\ \A i \in Calls : WF_vars(CallStep(i))

FairSpec == Init /\ [][Next]_vars /\ Fairness

(***************************************************************************)
(* The sequential branch as a function of the inputs: what                 *)
(* processDomainsFromFile returns, and leaves in s.totalFound, when the    *)
(* loop over domains runs in input order with nothing else running.        *)
(***************************************************************************)
\* queryAPI from the given attempt on, against the responses of script
RECURSIVE queryAPI(_, _, _, _)
queryAPI(domain, script, attempt, lastErr) ==
  IF ~MoreAttempts(attempt) THEN QueryExhausted(lastErr)
  ELSE IF NewRequestFails(QueryURL(domain)) THEN QueryNewRequestErr
  ELSE LET c == Classify(domain, Service[script[attempt]])
       IN  IF c.done THEN c.ret ELSE queryAPI(domain, script, attempt + 1, c.lastErr)

\* processDomain's return value
processDomain(d, script) ==
  LET domain == NormaliseDomain(d)
      ret == queryAPI(domain, script, 1, NoErr)
  IN  IF domain = <<>> THEN <<>> ELSE IF ret.ok THEN ret.subs ELSE <<>>

\* the sequential loop from index i on: the set and the running total it ends with
RECURSIVE SequentialLoop(_, _, _, _, _)
SequentialLoop(ds, scripts, i, all, total) ==
  IF i > Len(ds) THEN [all |-> all, total |-> total]
  ELSE LET subs == processDomain(ds[i], scripts[i])
       IN  SequentialLoop(ds, scripts, i + 1, Merged(all, subs), total + Len(subs))

\* processDomainsFromFile in sequential mode: [result, totalFound]
SequentialRun(ls, scripts) ==
  LET end == SequentialLoop(LoadedDomains(ls), scripts, 1, {}, 0)
      res == SortStrings(end.all)
  IN  [result |-> res, totalFound |-> FinalTotal(res, end.total)]

(***************************************************************************)
(* isValidSubdomain and extractSubdomains applied on their own, to         *)
(* arguments no run of the model's service produces: main stands still.    *)
(***************************************************************************)
\* the most labels of a candidate handed to isValidSubdomain
MaxLabels == 4
\* the most name values handed to extractSubdomains
MaxEntries == 2

\* the string of n characters c
Repeat(c, n) == [k \in 1..n |-> c]

\* the labels of the lengths lens, joined by dots
RECURSIVE Host(_)
Host(lens) ==
  IF Len(lens) = 0 THEN <<>>
  ELSE IF Len(lens) = 1 THEN Repeat("a", lens[1])
  ELSE Repeat("a", lens[1]) \o <<".">> \o Host(Tail(lens))

\* the label lengths of the candidates: around the limits of isValidSubdomain
LabelLengths == {0, 1, 62, 63, 64}

\* the arguments of isValidSubdomain: a host, or "*." and a host
ValidatorCalls ==
  {[fn |-> "isValidSubdomain", lens |-> lens, wild |-> wild,
    arg |-> (IF wild THEN <<"*", ".">> ELSE <<>>) \o Host(lens),
    done |-> FALSE, ret |-> FALSE, retStar |-> FALSE] :
     lens \in SeqsUpTo(LabelLengths, MaxLabels) \ {<<>>}, wild \in BOOLEAN}

\* target domains, as processDomain hands them on: trimmed, lower case, not empty
DomB == <<"b">>
DomDash == <<"-", "a", ".", "b">>
DomTrail == <<"a", ".", "b", "-">>
Targets == {DomAB, DomCAB, DomB, DomDash, DomTrail}

\* more name values
NvEmpty == <<>>
NvDash == <<"x", "-", "a", ".", "b">>
NvPadded == <<" ", "c", ".", "a", ".", "b", " ">>
NvMixed == <<"*", ".", "C", ".", "a", ".", "B", "\n", "\n", "d", ".", "A", ".", "b">>
NvTrail == <<"a", ".", "b", "-", "c">>
NameValues ==
  {NvEmpty, NvTwoLines, NvWildcard, NvDeep, NvNoise, NvDash, NvPadded, NvMixed, NvTrail}

\* the arguments of extractSubdomains
ExtractorCalls ==
  {[fn |-> "extractSubdomains", target |-> t, entries |-> es,
    done |-> FALSE, ret |-> <<>>, again |-> <<>>] :
     t \in Targets, es \in SeqsUpTo(NameValues, MaxEntries)}

PureInit ==
  /\ fcall \in ValidatorCalls \cup ExtractorCalls
  /\ mode = "none"
  /\ flagD = <<>>
  /\ lines = <<>>
  /\ fileOk = FALSE
  /\ concurrent = FALSE
  /\ concurrency = 0
  /\ silent = FALSE
  /\ net = [i \in Calls |-> <<"transport", "transport", "transport">>]
  /\ mainPc = "start"
  /\ domains = <<>>
  /\ next = 1
  /\ frame = [i \in Calls |-> IdleFrame]
  /\ totalFound = 0
  /\ smu = 0
  /\ mu = 0
  /\ sem = 0
  /\ wg = 0
  /\ allSubdomains = {}
  /\ result = <<>>
  /\ stdout = [logs |-> 0, results |-> <<>>]
  /\ writes = {}

\* what an application of a function leaves alone
program ==
  <<mode, flagD, fileOk, lines, concurrent, concurrency, silent, net, mainPc, domains, next,
    frame, totalFound, smu, mu, sem, wg, allSubdomains, result, stdout, writes>>

\* isValidSubdomain(arg), and isValidSubdomain("*." + arg)
Validate ==
  /\ fcall.fn = "isValidSubdomain"
  /\ ~fcall.done
  /\ fcall' = [fcall EXCEPT !.done = TRUE,
                            !.ret = isValidSubdomain(fcall.arg),
                            !.retStar = isValidSubdomain(<<"*", ".">> \o fcall.arg)]
  /\ UNCHANGED program

\* extractSubdomains(target, entries), and extractSubdomains of what it returned
ExtractTwice ==
  /\ fcall.fn = "extractSubdomains"
  /\ ~fcall.done
  /\ LET out == extractSubdomains(fcall.target, fcall.entries)
     IN  fcall' = [fcall EXCEPT !.done = TRUE,
                                !.ret = out,
                                !.again = extractSubdomains(fcall.target, out)]
  /\ UNCHANGED program

PureNext == Validate \/ ExtractTwice

PureSpec == PureInit /\ [][PureNext]_vars

(***************************************************************************)
(* The retry loop of queryAPI.                                             *)
(***************************************************************************)
\* queryAPI has returned in call i
Returned(i) == frame[i].qret.err # "pending"

\* a response that is a success in the words of the specification: a success
\* status, a body that does not start with "<" once trimmed, a JSON array
Succeeds(resp) ==
  /\ ~resp.err
  /\ resp.status = 200
  /\ ~resp.readErr
  /\ ~HasPrefix(TrimSpace(resp.body.text), <<"<">>)
  /\ jsonUnmarshal(resp.body).ok

\* the response to attempt n of call i
Resp(i, n) == Service[net[i][n]]

\* the names of the responses that are successes
Successes == {r \in DOMAIN Service : Succeeds(Service[r])}

\* the responses to attempts 1..n of call i are all failures
AllFail(i, n) == \A k \in 1..n : net[i][k] \notin Successes

\* C1: a fetch call issues at most 3 requests; when every attempt fails, it
\* issues exactly 3 and then returns a failure
C1_AtMostThreeAttempts ==
  \A i \in Calls :
    /\ frame[i].requests <= 3
    /\ (Returned(i) /\ frame[i].requests >= 1 /\ AllFail(i, frame[i].requests))
         => (frame[i].requests = 3 /\ ~frame[i].qret.ok)
    /\ (frame[i].requests = 3 /\ AllFail(i, 3) /\ frame[i].pc # "query") => Returned(i)

C1_Witness ==
  \E i \in Calls :
    /\ Returned(i)
    /\ frame[i].requests = 3
    /\ AllFail(i, 3)
    /\ ~frame[i].qret.ok
    /\ Resp(i, 1).err
    /\ Resp(i, 2).status = 404
    /\ Resp(i, 3) = RespJunk

\* the first attempt of call i whose response is a success, 0 when there is none
FirstSuccess(i) ==
  LET ks == {k \in 1..3 : net[i][k] \in Successes}
  IN  IF ks = {} THEN 0 ELSE CHOOSE k \in ks : \A j \in ks : k <= j

\* what the Extractor makes of the records of each response, for each domain
Extracted ==
  [d \in QueriedDomains, r \in DOMAIN Service |-> extractSubdomains(d, Service[r].body.objs)]

\* C2: the first successful attempt k ends the call with a success result; no
\* attempt k+1 is issued and no sleep follows
C2_FirstSuccessEndsCall ==
  \A i \in Calls :
    LET k == FirstSuccess(i)
    IN  (k # 0) =>
          /\ frame[i].requests <= k
          /\ Len(frame[i].sleeps) <= k - 1
          /\ frame[i].requests = k =>
               /\ frame[i].qret.ok
               /\ frame[i].pc # "query"
               /\ frame[i].subs = frame[i].qret.subs
               /\ frame[i].qret.subs = Extracted[frame[i].domain, net[i][k]]

C2_Witness ==
  \E i \in Calls :
    /\ FirstSuccess(i) = 2
    /\ frame[i].qret.ok
    /\ frame[i].requests = 2
    /\ frame[i].pc \in {"ret", "done"}
    /\ Len(frame[i].qret.subs) > 0

\* C3: when three attempts all fail, the sleeps are 1 unit before attempt 2
\* and 2 units before attempt 3, and none before attempt 1
C3_BackoffOneThenTwo ==
  \A i \in Calls :
    (Returned(i) /\ frame[i].requests = 3 /\ AllFail(i, 3)) =>
      frame[i].sleeps = <<[before |-> 2, units |-> 1], [before |-> 3, units |-> 2]>>

\* a 200 response whose body, once trimmed, starts with "<"
HTMLPage(resp) ==
  /\ ~resp.err
  /\ resp.status = 200
  /\ ~resp.readErr
  /\ HasPrefix(TrimSpace(resp.body.text), <<"<">>)

\* the names of the responses that are such pages
HTMLPages == {r \in DOMAIN Service : HTMLPage(Service[r])}

\* C4: an attempt that gets an HTML page with status 200 is never a success:
\* the HTML error becomes lastErr and the call goes on to the next attempt, or
\* ends with the retries exhausted when it was attempt 3
C4_HTMLIsFailure ==
  \A i \in Calls :
    \A n \in 1..3 :
      (frame[i].requests = n /\ net[i][n] \in HTMLPages) =>
        /\ ~frame[i].qret.ok
        /\ frame[i].lastErr = ErrHTML
        /\ n < 3 => (frame[i].pc = "query" /\ frame[i].attempt = n + 1 /\ ~Returned(i))
        /\ (n = 3 /\ Returned(i)) => frame[i].qret = QueryExhausted(ErrHTML)

C4_Witness ==
  \E i \in Calls :
    /\ frame[i].requests = 3
    /\ net[i][3] \in HTMLPages
    /\ Returned(i)
    /\ frame[i].qret.wraps = ErrHTML

\* what the specification's words make of a failed response
FailureOf(resp) ==
  IF resp.err THEN ErrTransport
  ELSE IF resp.status # 200 THEN ErrHTTP(resp.status)
  ELSE IF resp.readErr THEN ErrRead
  ELSE IF HasPrefix(TrimSpace(resp.body.text), <<"<">>) THEN ErrHTML
  ELSE ErrJSON

\* the failure of each response, by name
Failures == [r \in DOMAIN Service |-> FailureOf(Service[r])]

\* call i failed with the retries exhausted, wrapping the third attempt's failure
ExhaustedReturn(i) ==
  /\ frame[i].requests = 3
  /\ AllFail(i, 3)
  /\ frame[i].qret.err = "max retries exceeded"
  /\ frame[i].qret.wraps = Failures[net[i][3]]

\* C5 as stated: every failing return comes after 3 attempts and is the
\* exhausted-retries error wrapping the last failure, for any domain string
C5_OnlyExhaustedFailures ==
  \A i \in Calls : (Returned(i) /\ ~frame[i].qret.ok) => ExhaustedReturn(i)

\* C5 as amended: a failing return is either that, or the error of
\* http.NewRequest returned at once, before any request was issued, which
\* happens exactly for a domain the URL cannot be built from
C5_FailuresExhaustedOrNewRequest ==
  \A i \in Calls :
    /\ (Returned(i) /\ ~frame[i].qret.ok) =>
         \/ ExhaustedReturn(i)
         \/ /\ frame[i].qret = QueryNewRequestErr
            /\ frame[i].requests = 0
            /\ frame[i].sleeps = <<>>
            /\ \E k \in 1..Len(frame[i].domain) : Ord[frame[i].domain[k]] < 32
    /\ (Returned(i) /\ \E k \in 1..Len(frame[i].domain) : Ord[frame[i].domain[k]] < 32)
         => frame[i].qret = QueryNewRequestErr
    /\ (frame[i].pc \in {"ret", "done"} /\ Returned(i) /\ ~frame[i].qret.ok)
         => frame[i].subs = <<>>

C5_Witness ==
  \E i \in Calls :
    /\ ExhaustedReturn(i)
    /\ frame[i].qret.wraps = ErrRead
    /\ frame[i].pc = "done"

(***************************************************************************)
(* The batch: processDomainsFromFile.                                      *)
(***************************************************************************)
\* the worker tasks between their send on the semaphore and their receive
Admitted ==
  {i \in Calls : mainPc = "spawn" /\ frame[i].pc \notin {"idle", "acquire", "done"}}

\* C6: in concurrent mode with maxWorkers = N >= 1, at most N workers are
\* between acquiring and releasing the semaphore, so at most N fetches run
C6_AtMostNAdmitted ==
  concurrency >= 1 =>
    /\ Cardinality(Admitted) <= concurrency
    /\ Cardinality({i \in Calls : mainPc = "spawn" /\ frame[i].pc = "query"}) <= concurrency

C6_Witness ==
  /\ concurrency = 2
  /\ Cardinality({i \in Admitted : frame[i].pc = "query"}) = 2
  /\ \E i \in Calls : frame[i].pc = "acquire"

\* a batch run has returned (the list file could be read)
BatchReturned == mode = "list" /\ fileOk /\ mainPc = "done"

\* C7: whatever the interleaving of the workers, the concurrent run returns
\* the sequence, and leaves the totalFound, of the sequential run on the same
\* domains and the same fetch outcomes
C7_ConcurrentEqualsSequential ==
  BatchReturned =>
    /\ result = SequentialRun(lines, net).result
    /\ totalFound = SequentialRun(lines, net).totalFound

C7_Witness ==
  /\ BatchReturned
  /\ concurrent
  /\ concurrency = 2
  /\ Len(domains) = 3
  /\ \A i \in 1..3 : frame[i].pc = "done"
  /\ frame[1].qret.ok /\ ~frame[2].qret.ok /\ frame[3].qret.ok
  /\ Len(result) = 4

\* the sum of the counts the calls of processDomain added to totalFound
RECURSIVE SumCounts(_)
SumCounts(n) == IF n = 0 THEN 0 ELSE frame[n].count + SumCounts(n - 1)

\* C8: when a batch run returns, totalFound is the length of the returned
\* sequence, not the sum of the per-domain counts
C8_TotalIsFinalSize ==
  (mode = "list" /\ mainPc = "done") => totalFound = Len(result)

C8_Witness ==
  /\ BatchReturned
  /\ Len(result) > 0
  /\ totalFound = Len(result)
  /\ SumCounts(MaxLines) > Len(result)
  /\ \E i \in Calls : Returned(i) /\ ~frame[i].qret.ok

\* the subdomains of the calls whose fetch succeeded
Produced == UNION {Range(frame[i].qret.subs) : i \in {j \in Calls : frame[j].qret.ok}}

\* C9: the returned sequence is strictly ascending and its elements are
\* exactly the subdomains the successful fetches of the run produced
C9_SortedUnion ==
  BatchReturned =>
    /\ \A k \in 1..(Len(result) - 1) : StrLess(result[k], result[k + 1])
    /\ \A k, l \in 1..Len(result) : k # l => ToLower(result[k]) # ToLower(result[l])
    /\ Range(result) = Produced

C9_Witness ==
  /\ BatchReturned
  /\ Len(result) = 4
  /\ Cardinality({i \in Calls : frame[i].qret.ok}) = 2
  /\ \E i, j \in Calls :
       /\ i # j
       /\ frame[i].qret.ok
       /\ frame[j].qret.ok
       /\ Range(frame[i].qret.subs) \cap Range(frame[j].qret.subs) # {}
       /\ Range(frame[i].qret.subs) # Range(frame[j].qret.subs)

\* C10: a domain whose fetch fails contributes nothing and stops nothing:
\* every domain of the list is processed to the end, and the subdomains of
\* the others are in the result, in either mode
C10_FailureIsolated ==
  BatchReturned =>
    \A i \in 1..Len(domains) :
      /\ frame[i].pc = "done"
      /\ Returned(i)
      /\ frame[i].qret.ok => Range(frame[i].qret.subs) \subseteq Range(result)
      /\ ~frame[i].qret.ok => (frame[i].subs = <<>> /\ frame[i].count = 0)

C10_Witness ==
  /\ BatchReturned
  /\ Len(domains) = 3
  /\ ~frame[1].qret.ok
  /\ frame[1].qret.err = "max retries exceeded"
  /\ frame[2].qret.ok
  /\ frame[3].qret.ok
  /\ Range(frame[2].qret.subs) \cup Range(frame[3].qret.subs) = Range(result)
  /\ result # <<>>

(***************************************************************************)
(* The barrier, the empty domain, the backoff, the locks, the sequential   *)
(* branch.                                                                 *)
(***************************************************************************)
\* a batch run took the worker branch
WorkerBranch ==
  mode = "list" /\ fileOk /\ mainPc # "start" /\ concurrent /\ Len(domains) >= 2

\* C11: in concurrent mode the final result is built, totalFound overwritten
\* and the batch returned only after every worker task, failed or not, has
\* merged its result and completed
C11_BarrierBeforeFinal ==
  (WorkerBranch /\ mainPc \in {"final", "done"}) =>
    /\ wg = 0
    /\ \A i \in 1..Len(domains) :
         /\ frame[i].pc = "done"
         /\ Range(frame[i].subs) \subseteq allSubdomains
    /\ mainPc = "done" => Range(result) = allSubdomains

C11_Witness ==
  /\ WorkerBranch
  /\ mainPc = "final"
  /\ Len(domains) = 3
  /\ \E i, j \in 1..3 : frame[i].qret.ok /\ ~frame[j].qret.ok /\ Returned(j)
  /\ allSubdomains # {}

\* a string that is empty or white space only
Blank(str) == \A j \in 1..Len(str) : IsSpace(str[j])

\* C12: no request is ever issued for an empty domain: the domains loaded
\* from the list are the non-blank lines, trimmed, and processDomain given a
\* domain that is empty once trimmed returns nothing, issues no request and
\* leaves totalFound alone
C12_NoFetchForEmptyDomain ==
  /\ (mode = "list" /\ fileOk /\ mainPc # "start") =>
       /\ Len(domains) = Cardinality({k \in 1..Len(lines) : ~Blank(lines[k])})
       /\ \A k \in 1..Len(domains) :
            /\ ~Blank(domains[k])
            /\ ~IsSpace(domains[k][1])
            /\ ~IsSpace(domains[k][Len(domains[k])])
  /\ \A i \in Calls :
       /\ (frame[i].requests > 0 \/ frame[i].pc = "query") => frame[i].domain # <<>>
       /\ (frame[i].pc \notin {"idle", "acquire"} /\ i <= Len(domains) /\ Blank(domains[i])) =>
            /\ frame[i].pc \in {"ret", "done"}
            /\ frame[i].requests = 0
            /\ frame[i].sleeps = <<>>
            /\ frame[i].qret = QueryPending
            /\ frame[i].subs = <<>>
            /\ totalFound = 0
            /\ writes = {}

C12_Witness ==
  /\ mode = "single"
  /\ Blank(flagD)
  /\ mainPc = "done"
  /\ frame[1].requests = 0
  /\ result = <<>>
  /\ totalFound = 0

Locks == {"s.mu", "mu"}

SequentialCase ==
  mode = "list" /\ fileOk /\ mainPc # "start" /\ (~concurrent \/ Len(domains) = 1)

\* C20: with concurrent mode off, or exactly one domain, no worker is
\* launched, and the call for a domain starts only when the calls for the
\* domains before it are over
C20_SequentialInOrder ==
  SequentialCase =>
    /\ mainPc # "spawn"
    /\ wg = 0
    /\ sem = 0
    /\ \A i \in Calls : frame[i].pc \notin {"acquire", "merge", "release"}
    /\ \A w \in writes : w.by = "main"
    /\ \A i, j \in 1..Len(domains) : (i < j /\ frame[j].pc # "idle") => frame[i].pc = "done"

C20_Witness ==
  /\ SequentialCase
  /\ concurrent
  /\ Len(domains) = 1
  /\ mainPc = "done"
  /\ frame[1].pc = "done"
  /\ frame[1].requests = 2
  /\ result # <<>>

(***************************************************************************)
(* The Validator and the Extractor.                                        *)
(***************************************************************************)
\* isValidSubdomain has been applied
Validated == fcall.fn = "isValidSubdomain" /\ fcall.done

\* C13 as stated: the Validator gives "*." + h the verdict it gives h, for
\* every h
C13_WildcardStrippedFirst == Validated => fcall.retStar = fcall.ret

\* C13 as amended: the length test reads the string as given, "*." included,
\* and only the label tests follow the strip: "*." + h has the verdict of h
\* when h has at most 251 characters, and is rejected when h has 252 or more
C13_LengthBeforeStrip ==
  Validated =>
    /\ Len(fcall.arg) <= 251 => fcall.retStar = fcall.ret
    /\ Len(fcall.arg) >= 252 => ~fcall.retStar

C13_Witness ==
  /\ Validated
  /\ ~fcall.wild
  /\ Len(fcall.arg) = 252
  /\ fcall.ret
  /\ ~fcall.retStar

\* C14: a candidate without a leading "*." is valid exactly when its length
\* is between 1 and 253 and each of its labels has between 1 and 63 characters
C14_LengthAndLabelLimits ==
  (Validated /\ ~fcall.wild) =>
    fcall.ret =
      (/\ Len(fcall.arg) >= 1
       /\ Len(fcall.arg) <= 253
       /\ \A k \in 1..Len(fcall.lens) : fcall.lens[k] >= 1 /\ fcall.lens[k] <= 63)

C14_Witness ==
  /\ Validated
  /\ ~fcall.wild
  /\ fcall.ret
  /\ Len(fcall.arg) = 253
  /\ \E k \in 1..Len(fcall.lens) : fcall.lens[k] = 63

\* extractSubdomains has been applied
Extracts == fcall.fn = "extractSubdomains" /\ fcall.done

\* the lines of the raw entries
LinesOf(entries) == UNION {Range(Split(entries[k], "\n")) : k \in 1..Len(entries)}

\* the line without its leading "*.", in lower case
Hostname(line) == ToLower(TrimPrefix(line, <<"*", ".">>))

\* the line is, up to letter case and a leading "*.", a host name that is the
\* target or ends in "." and the target
HostnameUnder(line, t) ==
  LET h == Hostname(line)
      labels == Split(h, ".")
  IN  /\ Len(h) >= 1
      /\ Len(h) <= 253
      /\ \A k \in 1..Len(labels) :
           /\ Len(labels[k]) >= 1
           /\ Len(labels[k]) <= 63
           /\ IsAlnum(labels[k][1])
           /\ IsAlnum(labels[k][Len(labels[k])])
           /\ \A j \in 1..Len(labels[k]) : IsAlnum(labels[k][j]) \/ labels[k][j] = "-"
      /\ \/ h = t
         \/ /\ Len(h) > Len(t) + 1
            /\ SubSeq(h, Len(h) - Len(t), Len(h)) = <<".">> \o t

\* C15: for a lower-case target, extract returns a strictly ascending
\* sequence of lower-case host names without "*.", each valid and containing
\* the target and each read from a line of an entry; every line that is a
\* host name under the target is found, whatever its letter case; an entry
\* without a match adds nothing
C15_ExtractSortedLowerValid ==
  Extracts =>
    LET out == fcall.ret
        t == fcall.target
    IN  /\ \A k \in 1..(Len(out) - 1) : StrLess(out[k], out[k + 1])
        /\ \A k \in 1..Len(out) :
             /\ \A j \in 1..Len(out[k]) : out[k][j] \notin DOMAIN Lower
             /\ ~HasPrefix(out[k], <<"*", ".">>)
             /\ isValidSubdomain(out[k])
             /\ Contains(out[k], t)
             /\ \E line \in LinesOf(fcall.entries) : Contains(ToLower(line), out[k])
        /\ \A line \in LinesOf(fcall.entries) :
             HostnameUnder(line, t) => Hostname(line) \in Range(out)
        /\ \A k \in 1..Len(fcall.entries) :
             extractSubdomains(t, <<fcall.entries[k]>>) = <<>> =>
               out = extractSubdomains(t, SelectSeq(fcall.entries, LAMBDA e : e # fcall.entries[k]))

C15_Witness ==
  /\ Extracts
  /\ fcall.target = DomAB
  /\ fcall.entries = <<NvTwoLines, NvMixed>>
  /\ fcall.ret = <<DomAB, DomCAB, <<"d", ".", "a", ".", "b">>>>

\* C16 as stated: extracting from what extract returned returns it again,
\* for every target
C16_ExtractIdempotent == Extracts => fcall.again = fcall.ret

\* C16 as amended: it does for a target that begins and ends with a word
\* character (a letter, a digit or "_")
C16_IdempotentOnWordTargets ==
  (Extracts /\ IsWord(fcall.target[1]) /\ IsWord(fcall.target[Len(fcall.target)])) =>
    fcall.again = fcall.ret

C16_Witness ==
  /\ Extracts
  /\ fcall.target = DomCAB
  /\ fcall.entries = <<NvPadded, NvDeep>>
  /\ Len(fcall.ret) = 2
  /\ fcall.again = fcall.ret

(***************************************************************************)
(* Standard output in silent mode.                                         *)
(***************************************************************************)
\* C17: in silent mode, what a finished run has written to standard output
\* is exactly its returned subdomains, one bare line each, and no log line
C17_SilentPrintsExactlyResults ==
  (silent /\ mainPc = "done") =>
    /\ stdout.logs = 0
    /\ stdout.results = [k \in 1..Len(result) |-> [bare |-> TRUE, sub |-> result[k]]]

(***************************************************************************)
(* The effect of one call of processDomain on the state the calls share.   *)
(***************************************************************************)
\* call i is in processDomain, or about to enter it
InProcessDomain(i) == frame[i].pc \in {"idle", "acquire", "query", "lockS", "load", "add"}

\* this step is a step of call i inside processDomain: its entry, an
\* iteration of the retry loop, s.mu.Lock(), or the counter update and return
ProcessDomainStep(i) ==
  /\ InProcessDomain(i)
  /\ frame'[i] # frame[i]
  /\ frame'[i].pc \in {"query", "lockS", "load", "add", "ret"}

\* C21: a step of a processDomain call never changes allSubdomains; it
\* changes totalFound only at its counter update, which only a call whose
\* fetch succeeded reaches, and which adds exactly the number of subdomains
\* the call returns; a call whose fetch failed or whose domain is empty
\* returns nothing and has changed neither
C21_OnlyTotalFoundChanges ==
  [][\A i \in Calls :
       ProcessDomainStep(i) =>
         /\ allSubdomains' = allSubdomains
         /\ IF frame[i].pc = "add"
            THEN /\ frame[i].qret.ok
                 /\ frame'[i].pc = "ret"
                 /\ totalFound' = totalFound + Len(frame'[i].subs)
            ELSE totalFound' = totalFound
         /\ (frame'[i].pc = "ret" /\ frame[i].pc # "add") =>
              (~frame'[i].qret.ok /\ frame'[i].subs = <<>>)]_vars

\* a worker's call has added its three subdomains to totalFound and
\* returned, and allSubdomains is still empty
C21_Witness ==
  /\ mainPc = "spawn"
  /\ \E i \in 1..Len(domains) :
       /\ frame[i].pc = "ret"
       /\ frame[i].qret.ok
       /\ Len(frame[i].subs) = 3
       /\ totalFound = 3
  /\ allSubdomains = {}

(***************************************************************************)
(* Termination of the worker branch.                                       *)
(***************************************************************************)
\* worker i was launched and waits at the semaphore
Launched(i) == mainPc = "spawn" /\ frame[i].pc = "acquire"

\* worker i is over: admitted, processDomain and the merge done, the slot
\* released, wg.Done() called
WorkerOver(i) == frame[i].pc = "done" /\ frame[i].domain # <<>>

\* C22: in the worker branch, for every value of s.concurrency, every
\* launched worker is eventually admitted, completes and releases its slot,
\* and the batch eventually returns
C22_WorkersAdmittedBatchReturns ==
  /\ \A i \in Calls : Launched(i) ~> WorkerOver(i)
  /\ (mainPc = "spawn") ~> (mainPc = "done")

\* the same with at least one slot in the semaphore
C22_ReturnsWithASlot ==
  /\ \A i \in Calls : (Launched(i) /\ concurrency >= 1) ~> WorkerOver(i)
  /\ (mainPc = "spawn" /\ concurrency >= 1) ~> (mainPc = "done")

\* with s.concurrency = 0 every worker was launched and none can be
\* admitted: no goroutine can take a step and the batch has not returned
C22_AllBlocked ==
  /\ mainPc = "spawn"
  /\ concurrency = 0
  /\ next > Len(domains)
  /\ \A i \in 1..Len(domains) : frame[i].pc = "acquire"
  /\ ~ENABLED Next

(***************************************************************************)
(* The running total under concurrency.                                    *)
(***************************************************************************)
\* call i has passed its counter update: processDomain returned subdomains
Passed(i) == frame[i].qret.ok /\ frame[i].pc \in {"ret", "merge", "release", "done"}

\* the sum of the result sizes of the calls among 1..n that have passed
\* their counter update
RECURSIVE SumPassed(_)
SumPassed(n) ==
  IF n = 0 THEN 0
  ELSE (IF Passed(n) THEN Len(frame[n].subs) ELSE 0) + SumPassed(n - 1)

\* call i is at its counter update: between s.mu.Lock() and s.mu.Unlock()
Incrementing(i) == frame[i].pc \in {"load", "add"}

\* C23: in the worker branch, until the final overwrite, totalFound is the
\* sum of the result sizes of the calls that have passed their counter
\* update; and when main is at the final overwrite no call is at, or still
\* before, its counter update
C23_NoLostIncrement ==
  (WorkerBranch /\ mainPc \in {"spawn", "final"}) =>
    /\ totalFound = SumPassed(MaxLines)
    /\ mainPc = "final" =>
         \A i \in 1..Len(domains) : ~Incrementing(i) /\ frame[i].pc = "done"

\* two workers have each added their subdomains (three and two) while a
\* third call has read the total and not yet written it
C23_Witness ==
  /\ WorkerBranch
  /\ mainPc = "spawn"
  /\ Cardinality({i \in 1..Len(domains) : Passed(i) /\ frame[i].count > 0}) >= 2
  /\ \E i \in 1..Len(domains) : frame[i].pc = "add" /\ frame[i].old = totalFound
  /\ totalFound >= 5

====
